---- MODULE Spec2Model ----
(***************************************************************************)
(* Front end of the Pascal-like interpreter: the nested symbol scopes      *)
(* (SymbolScope.ts), the AST tree substrate (AST.ts) and the recursive     *)
(* descent parser (Parser).                                                *)
(***************************************************************************)
EXTENDS Integers, Sequences, FiniteSets, TLC

VARIABLES
  scope, value,    \* SymbolScope: declaration table and value table of each scope
  last, ops,       \* the last SymbolScope call and the number of calls made
  heap, astLast,   \* AST: the nodes allocated so far and the last AST call
  astOps,          \* the number of addChild and replace calls made
  tokens,          \* Parser: the token stream the lexer supplies
  parser           \* the parser's state: before the call, or as the call left it

scopeVars == <<scope, value, last, ops>>
astVars == <<heap, astLast, astOps>>
parserVars == <<tokens, parser>>
vars == <<scope, value, last, ops, heap, astLast, astOps, tokens, parser>>
notScopeVars == <<astVars, parserVars>>
notAstVars == <<scopeVars, parserVars>>
notParserVars == <<scopeVars, astLast, astOps>>

(***************************************************************************)
(* Bounds of the model.                                                    *)
(***************************************************************************)
NumScopes == 3
MaxOps == 3
MaxNodes == 4
MaxAstOps == 4
MaxExprLen == 5
MaxStatements == 2
MaxChunks == 3

(***************************************************************************)
(* SymbolScope                                                             *)
(***************************************************************************)
\* null and undefined, and the absent optional argument of a call.
Null == [tag |-> "null"]
Undefined == [tag |-> "undefined"]
NoType == "none"
NoScope == 0

\* The scopes form a chain: scope 1 is the global scope, scope s > 1 is a
\* local scope whose parent is s - 1.
Scopes == 1..NumScopes
Parent(s) == IF s = 1 THEN NoScope ELSE s - 1

Names == {"x", "X", "y"}

\* Key normalisation of the case-insensitive map.
Lower(n) == IF n = "X" THEN "x" ELSE n

MapHas(m, name) == \E e \in m : e.key = Lower(name)
MapGet(m, name) ==
  LET key == Lower(name)
      hit == {e \in m : e.key = key}
  IN  IF hit = {} THEN Undefined ELSE (CHOOSE e \in hit : TRUE).val
MapSet(m, name, v) ==
  {e \in m : e.key # Lower(name)} \cup {[key |-> Lower(name), val |-> v]}

\* Symbols: a VariableSymbol whose type defines a default value, a
\* VariableSymbol whose type defines none, and a ProcedureSymbol.
SymbolKinds == {"VarInteger", "VarNoDefault", "Procedure"}
Symbols == [name : Names, kind : SymbolKinds]
IsVariableSymbol(sym) == sym.kind \in {"VarInteger", "VarNoDefault"}
SymbolTypes == {"VariableSymbol", "ProcedureSymbol"}
SymbolInstanceOf(sym, symbolType) ==
  IF symbolType = "VariableSymbol" THEN IsVariableSymbol(sym) ELSE ~IsVariableSymbol(sym)

\* Runtime values and their classes: the default value of an integer
\* variable, and a value of another class written by changeValue.
IntDefault == [cls |-> "PSIInteger", v |-> "0"]
BoolTrue == [cls |-> "PSIBoolean", v |-> "true"]
NewValues == {BoolTrue}
ValueTypes == {"PSIInteger", "PSIBoolean"}
ValueInstanceOf(val, type) == val.cls = type
DefaultValue(sym) == IF sym.kind = "VarInteger" THEN IntDefault ELSE Undefined

RECURSIVE ResolveValue(_, _, _)
ResolveValue(s, name, type) ==
  LET result == MapGet(value[s], name)
      \* result && type ? result instanceof type : true
      cond == IF result # Undefined /\ type # NoType
                THEN ValueInstanceOf(result, type)
                ELSE TRUE
  IN  IF cond THEN result
      ELSE IF Parent(s) # NoScope THEN ResolveValue(Parent(s), name, type)
      ELSE Null

ResolveValueThisScopeOnly(s, name) ==
  LET result == MapGet(value[s], name)
  IN  IF result # Undefined THEN result ELSE Null

RECURSIVE FindScopeByValue(_, _)
FindScopeByValue(s, name) ==
  IF MapGet(value[s], name) # Undefined THEN s
  ELSE IF Parent(s) # NoScope THEN FindScopeByValue(Parent(s), name)
  ELSE NoScope

RECURSIVE FindScope(_, _)
FindScope(s, name) ==
  IF MapGet(scope[s], name) # Undefined THEN s
  ELSE IF Parent(s) # NoScope THEN FindScope(Parent(s), name)
  ELSE NoScope

HasCaseSensitive(s, sym) == \E e \in scope[s] : e.val.name = sym.name
Has(s, sym) == MapHas(scope[s], sym.name)

RECURSIVE ResolveIgnoringFilter(_, _, _)
ResolveIgnoringFilter(s, name, symbolType) ==
  LET result == MapGet(scope[s], name)
  IN  IF result # Undefined THEN result
      ELSE IF Parent(s) # NoScope THEN ResolveIgnoringFilter(Parent(s), name, symbolType)
      ELSE Null

RECURSIVE Resolve(_, _, _)
Resolve(s, name, symbolType) ==
  LET result == MapGet(scope[s], name)
  IN  IF result # Undefined
         /\ (IF symbolType # NoType THEN SymbolInstanceOf(result, symbolType) ELSE TRUE)
        THEN result
      ELSE IF Parent(s) # NoScope THEN Resolve(Parent(s), name, symbolType)
      ELSE Null

InitScope ==
  /\ scope = [s \in Scopes |-> {}]
  /\ value = [s \in Scopes |-> {}]
  /\ last = [op |-> "none"]
  /\ ops = 0

\* insert(symbol) on scope s.
Insert(s, sym) ==
  /\ UNCHANGED notScopeVars
  /\ ops < MaxOps
  /\ ops' = ops + 1
  /\ IF Has(s, sym)
       THEN /\ last' = [op |-> "insert", scope |-> s, sym |-> sym, threw |-> TRUE]
            /\ UNCHANGED <<scope, value>>
       ELSE /\ last' = [op |-> "insert", scope |-> s, sym |-> sym, threw |-> FALSE]
            /\ scope' = [scope EXCEPT ![s] = MapSet(@, sym.name, sym)]
            /\ value' = IF IsVariableSymbol(sym) /\ DefaultValue(sym) # Undefined
                          THEN [value EXCEPT ![s] = MapSet(@, sym.name, DefaultValue(sym))]
                          ELSE value

\* changeValue(name, v) on scope s; findScope(name)! fails on null.
ChangeValue(s, name, v) ==
  /\ UNCHANGED notScopeVars
  /\ ops < MaxOps
  /\ ops' = ops + 1
  /\ LET owner == FindScope(s, name)
     IN  IF owner = NoScope
           THEN /\ last' = [op |-> "changeValue", scope |-> s, name |-> name,
                            value |-> v, threw |-> TRUE]
                /\ UNCHANGED <<scope, value>>
           ELSE /\ last' = [op |-> "changeValue", scope |-> s, name |-> name,
                            value |-> v, threw |-> FALSE]
                /\ value' = [value EXCEPT ![owner] = MapSet(@, name, v)]
                /\ UNCHANGED scope

NextScope ==
  \/ \E s \in Scopes, sym \in Symbols : Insert(s, sym)
  \/ \E s \in Scopes, name \in Names, v \in NewValues : ChangeValue(s, name, v)

(***************************************************************************)
(* AST                                                                     *)
(***************************************************************************)
\* A node is a record with (at least) the fields parent and children; nodes
\* are referred to by their index in the heap, and NoNode is null.
NoNode == 0
PlainNode == [parent |-> NoNode, children |-> <<>>]

\* children.forEach(child => { child.parent = this; this._children.push(child) })
RECURSIVE AddChild(_, _, _)
AddChild(h, this, children) ==
  IF children = <<>> THEN h
  ELSE LET child == Head(children)
           h1 == [h EXCEPT ![child].parent = this]
           h2 == [h1 EXCEPT ![this].children = Append(@, child)]
       IN  AddChild(h2, this, Tail(children))

\* findIndex(node => node === this): the first index, -1 when there is none.
FindIndex(seq, x) ==
  IF \E i \in 1..Len(seq) : seq[i] = x
    THEN CHOOSE i \in 1..Len(seq) : seq[i] = x /\ \A j \in 1..(i - 1) : seq[j] # x
    ELSE -1

\* this.replace(node): the heap afterwards and whether the call threw.
Replace(h, this, node) ==
  IF h[this].parent = NoNode THEN [heap |-> h, threw |-> TRUE]
  ELSE LET parent == h[this].parent
           index == FindIndex(h[parent].children, this)
       IN  IF index = -1 THEN [heap |-> h, threw |-> TRUE]
           ELSE LET h1 == [h EXCEPT ![parent].children[index] = node]
                    h2 == [h1 EXCEPT ![this].parent = NoNode]
                IN  [heap |-> h2, threw |-> FALSE]

Nodes == 1..Len(heap)

RECURSIVE IsAncestor(_, _, _)
\* a is n or an ancestor of n, following the parent links of h.
IsAncestor(h, a, n) ==
  IF n = NoNode THEN FALSE
  ELSE IF a = n THEN TRUE
  ELSE IsAncestor(h, a, h[n].parent)

InitAST ==
  /\ heap = <<>>
  /\ astLast = [op |-> "none"]
  /\ astOps = 0

\* new AST()
NewNode ==
  /\ UNCHANGED notAstVars
  /\ Len(heap) < MaxNodes
  /\ heap' = Append(heap, PlainNode)
  /\ astLast' = [op |-> "new", node |-> Len(heap) + 1]
  /\ UNCHANGED astOps

\* this.addChild(child), for a detached child that is not above this.
AddChildCall(this, child) ==
  /\ UNCHANGED notAstVars
  /\ astOps < MaxAstOps
  /\ astOps' = astOps + 1
  /\ heap[child].parent = NoNode
  /\ ~IsAncestor(heap, child, this)
  /\ heap' = AddChild(heap, this, <<child>>)
  /\ astLast' = [op |-> "addChild", this |-> this, node |-> child]

\* this.replace(node), for a detached node that is not above this.
ReplaceCall(this, node) ==
  /\ UNCHANGED notAstVars
  /\ astOps < MaxAstOps
  /\ astOps' = astOps + 1
  /\ heap[node].parent = NoNode
  /\ node # this
  /\ ~IsAncestor(heap, node, this)
  /\ LET r == Replace(heap, this, node)
     IN  /\ heap' = r.heap
         /\ astLast' = [op |-> "replace", this |-> this, node |-> node,
                         threw |-> r.threw]

NextAST ==
  \/ NewNode
  \/ \E this, child \in Nodes : AddChildCall(this, child)
  \/ \E this, node \in Nodes : ReplaceCall(this, node)

(***************************************************************************)
(* Lexer (the token source of the parser)                                  *)
(***************************************************************************)
KeywordKind ==
  [program |-> "ProgramToken", var |-> "VariableToken",
   procedure |-> "ProcedureToken", integer |-> "IntegerToken",
   real |-> "RealToken", boolean |-> "BooleanToken", char |-> "CharToken",
   begin |-> "BeginToken", end |-> "EndToken", if |-> "IfToken",
   then |-> "ThenToken", else |-> "ElseToken", for |-> "ForToken",
   to |-> "ToToken", downto |-> "DownToToken", do |-> "DoToken",
   while |-> "WhileToken", repeat |-> "RepeatToken", until |-> "UntilToken",
   or |-> "OrToken", div |-> "IntegerDivisionToken", mod |-> "ModToken",
   and |-> "AndToken", not |-> "NotToken", true |-> "TrueToken",
   false |-> "FalseToken"]
SymbolKind ==
  [c \in {";", ".", ",", ":", ":=", "+", "-", "*", "/", "=", "<>", ">", "<",
          ">=", "<=", "(", ")"} |->
     CASE c = ";" -> "SemiToken" [] c = "." -> "DotToken"
       [] c = "," -> "CommaToken" [] c = ":" -> "ColonToken"
       [] c = ":=" -> "AssignToken" [] c = "+" -> "PlusToken"
       [] c = "-" -> "MinusToken" [] c = "*" -> "MultiplicationToken"
       [] c = "/" -> "RealDivisionToken" [] c = "=" -> "EqualsToken"
       [] c = "<>" -> "NotEqualsToken" [] c = ">" -> "GreaterThanToken"
       [] c = "<" -> "LessThanToken" [] c = ">=" -> "GreaterEqualsToken"
       [] c = "<=" -> "LessEqualsToken" [] c = "(" -> "OpeningParenthesisToken"
       [] OTHER -> "ClosingParenthesisToken"]
IntegerLexemes == {"1", "2", "3", "5"}
RealLexemes == {"1.5"}
CharLexemes == {"'c'"}
EofLexeme == "<eof>"

LexemeKind(lx) ==
  IF lx \in DOMAIN KeywordKind THEN KeywordKind[lx]
  ELSE IF lx \in DOMAIN SymbolKind THEN SymbolKind[lx]
  ELSE IF lx \in IntegerLexemes THEN "IntegerConstToken"
  ELSE IF lx \in RealLexemes THEN "RealConstToken"
  ELSE IF lx \in CharLexemes THEN "CharConstantToken"
  ELSE IF lx = EofLexeme THEN "EofToken"
  ELSE "IdToken"

Position(line, character) == [linePosition |-> line, characterPosition |-> character]

\* The tokens of a one-line source text whose lexemes are separated by one
\* blank: each token has its kind, its literal value and its span.
RECURSIVE Lex(_, _)
Lex(lexemes, column) ==
  IF lexemes = <<>> THEN <<>>
  ELSE LET lx == Head(lexemes)
           width == IF lx = EofLexeme THEN 0 ELSE Len(lx)
       IN  <<[kind |-> LexemeKind(lx), value |-> lx,
              start |-> Position(1, column),
              end |-> Position(1, column + width)]>>
           \o Lex(Tail(lexemes), column + width + 1)

EofAt(column) ==
  [kind |-> "EofToken", value |-> EofLexeme,
   start |-> Position(1, column), end |-> Position(1, column)]

\* The i-th token of the stream; the lexer keeps answering end-of-input once
\* the stream is exhausted.
Token(i) ==
  IF i <= Len(tokens) THEN tokens[i]
  ELSE EofAt(tokens[Len(tokens)].end.characterPosition)
Kind(i) == Token(i).kind

(***************************************************************************)
(* Parser                                                                  *)
(***************************************************************************)
NoError == [message |-> "none"]
NoPosition == [start |-> Null, end |-> Null]

\* The state of a parser: currentToken and previousToken (indices into the
\* token stream, 0 for null), the nodes constructed so far, the error thrown
\* (if any), the value returned by the rule that ran last, and what the
\* statement lists and if-chains parsed so far did.
NewParser ==
  [cur |-> 1, prev |-> 0, heap |-> <<>>, err |-> NoError, ret |-> NoNode,
   lists |-> <<>>, links |-> <<>>, trace |-> <<>>, status |-> "constructed"]

Failed(st) == st.err # NoError
\* A method, or the body of one of its loops, is entered with currentToken
\* at st.cur: nothing is entered once an error is in flight.
Enter(st, rule) ==
  IF Failed(st) THEN st
  ELSE [st EXCEPT !.trace = Append(@, [rule |-> rule, at |-> st.cur])]
Return(st, v) == [st EXCEPT !.ret = v]
\* The condition of a while loop is tested: its body is entered when the
\* current token is of one of the kinds the loop continues on.
Iterate(st, loop, kinds) == IF Kind(st.cur) \in kinds THEN Enter(st, loop) ELSE st
Throw(st, location, message) ==
  [st EXCEPT !.err = [message |-> message, location |-> location]]

SpanOf(x) == [start |-> x.start, end |-> x.end]

PreviousTokenEndLocationAtCurrentToken(st) == SpanOf(Token(st.cur))
PreviousTokenEndLocationProvider(st) ==
  LET end == Token(st.prev).end
      at == Position(end.linePosition, end.characterPosition - 1)
  IN  [start |-> at, end |-> at]

DefaultMessage == "Expected type X to be Y"

\* eat(), with the token stream advanced even when the token is refused.
EatConsumingOnError(st, type, message, previousTokenThrow) ==
  IF Failed(st) THEN st
  ELSE IF Kind(st.cur) = type
    THEN [st EXCEPT !.prev = st.cur, !.cur = st.cur + 1]
  ELSE [Throw(st, IF previousTokenThrow /\ st.prev # 0
                    THEN PreviousTokenEndLocationProvider(st)
                    ELSE SpanOf(Token(st.cur)), message)
          EXCEPT !.cur = st.cur + 1]

\* this.currentToken = this.eat(type, message, previousTokenThrow)
Eat(st, type, message, previousTokenThrow) ==
  IF Failed(st) THEN st
  ELSE IF Kind(st.cur) = type
    THEN [st EXCEPT !.prev = st.cur, !.cur = st.cur + 1]
  ELSE IF previousTokenThrow /\ st.prev = 0
    THEN Throw(st, NoPosition, "TypeError")
  ELSE Throw(st,
             IF previousTokenThrow THEN PreviousTokenEndLocationProvider(st)
                                   ELSE SpanOf(Token(st.cur)),
             message)

\* new K(...args).inheritPositionFrom(from): the node is allocated, its AST
\* arguments become its children in argument order, and it takes the span
\* of `from`.
Construct(st, kind, val, args, position) ==
  IF Failed(st) THEN st
  ELSE LET id == Len(st.heap) + 1
           node == [kind |-> kind, value |-> val, args |-> args,
                    position |-> position, next |-> NoNode,
                    parent |-> NoNode, children |-> <<>>]
           h == AddChild(Append(st.heap, node), id, args)
       IN  [st EXCEPT !.heap = h, !.ret = id]

AdditiveAST ==
  [PlusToken |-> "PlusAST", MinusToken |-> "MinusAST", OrToken |-> "OrAST"]
MultiplicativeAST ==
  [MultiplicationToken |-> "MultiplicationAST",
   IntegerDivisionToken |-> "IntegerDivisionAST",
   RealDivisionToken |-> "RealDivisionAST", ModToken |-> "ModAST",
   AndToken |-> "AndAST"]
ComparisonAST ==
  [EqualsToken |-> "EqualsAST", NotEqualsToken |-> "NotEqualsAST",
   GreaterThanToken |-> "GreaterThanAST", LessThanToken |-> "LessThanAST",
   GreaterEqualsToken |-> "GreaterEqualsAST",
   LessEqualsToken |-> "LessEqualsAST"]
UnaryAST ==
  [PlusToken |-> "UnaryPlusAST", MinusToken |-> "UnaryMinusAST",
   NotToken |-> "NotAST"]
LiteralAST ==
  [IntegerConstToken |-> "IntegerConstantAST",
   RealConstToken |-> "RealConstantAST", TrueToken |-> "TrueAST",
   FalseToken |-> "FalseAST", CharConstantToken |-> "CharConstantAST"]

\* Sequencing: the value of `first` is computed once and handed to `rest`,
\* as a statement's result is to the statements after it.
Then(first, rest(_)) == CHOOSE r \in {rest(x) : x \in {first}} : TRUE

\* variable(): the node is built from the current token before it is eaten.
Variable(entered) ==
  LET st == Enter(entered, "variable") IN
  IF Failed(st) THEN st
  ELSE Then(Construct(st, "VariableAST", Token(st.cur).value, <<>>,
                      SpanOf(Token(st.cur))), LAMBDA s1 :
       Then(Eat(s1, "IdToken", DefaultMessage, FALSE), LAMBDA s2 :
       IF Failed(s2) THEN s2 ELSE Return(s2, s1.ret)))

RECURSIVE Expression(_), Term(_), Comparison(_), Factor(_)

\* factor()
Factor(entered) ==
  LET st == Enter(entered, "factor") IN
  IF Failed(st) THEN st
  ELSE LET savedToken == Token(st.cur)
           kind == savedToken.kind
       IN  IF kind \in {"PlusToken", "MinusToken", "NotToken"}
             THEN Then(Factor(Eat(st, kind, DefaultMessage, FALSE)), LAMBDA s2 :
                  Construct(s2, UnaryAST[kind], "", <<s2.ret>>, SpanOf(savedToken)))
           ELSE IF kind \in DOMAIN LiteralAST
             THEN Construct(Eat(st, kind, DefaultMessage, FALSE), LiteralAST[kind],
                            IF kind \in {"TrueToken", "FalseToken"}
                              THEN "" ELSE savedToken.value,
                            <<>>, SpanOf(savedToken))
           ELSE IF kind = "OpeningParenthesisToken"
             THEN Then(Expression(Eat(st, "OpeningParenthesisToken",
                                      DefaultMessage, FALSE)), LAMBDA s2 :
                  Then(Eat(s2, "ClosingParenthesisToken", DefaultMessage, FALSE),
                       LAMBDA s3 :
                  IF Failed(s3) THEN s3 ELSE Return(s3, s2.ret)))
           ELSE Variable(st)

\* comparison()
Comparison(entered) ==
  LET st == Enter(entered, "comparison") IN
  Then(Factor(st), LAMBDA s1 :
  LET savedToken == Token(s1.cur)
      kind == savedToken.kind
  IN  IF Failed(s1) THEN s1
      ELSE IF kind \in DOMAIN ComparisonAST
        THEN Then(Comparison(Eat(s1, kind, DefaultMessage, FALSE)), LAMBDA s3 :
             Construct(s3, ComparisonAST[kind], "", <<s1.ret, s3.ret>>,
                       SpanOf(savedToken)))
      ELSE s1)

\* term(), with the right operand parsed at the expression level.
TermRightOperandIsExpression(entered) ==
  LET st == Enter(entered, "term") IN
  Then(Comparison(st), LAMBDA s1 :
  LET savedToken == Token(s1.cur)
      kind == savedToken.kind
  IN  IF Failed(s1) THEN s1
      ELSE IF kind \in DOMAIN MultiplicativeAST
        THEN Then(Expression(Eat(s1, kind, DefaultMessage, FALSE)), LAMBDA s3 :
             Construct(s3, MultiplicativeAST[kind], "", <<s1.ret, s3.ret>>,
                       SpanOf(savedToken)))
      ELSE s1)

\* term()
Term(entered) ==
  LET st == Enter(entered, "term") IN
  Then(Comparison(st), LAMBDA s1 :
  LET savedToken == Token(s1.cur)
      kind == savedToken.kind
  IN  IF Failed(s1) THEN s1
      ELSE IF kind \in DOMAIN MultiplicativeAST
        THEN Then(Term(Eat(s1, kind, DefaultMessage, FALSE)), LAMBDA s3 :
             Construct(s3, MultiplicativeAST[kind], "", <<s1.ret, s3.ret>>,
                       SpanOf(savedToken)))
      ELSE s1)

\* expression()
Expression(entered) ==
  LET st == Enter(entered, "expression") IN
  Then(Term(st), LAMBDA s1 :
  LET savedToken == Token(s1.cur)
      kind == savedToken.kind
  IN  IF Failed(s1) THEN s1
      ELSE IF kind \in DOMAIN AdditiveAST
        THEN Then(Expression(Eat(s1, kind, DefaultMessage, FALSE)), LAMBDA s3 :
             Construct(s3, AdditiveAST[kind], "", <<s1.ret, s3.ret>>,
                       SpanOf(savedToken)))
      ELSE s1)

\* call(): the loop over the arguments.
RECURSIVE CallArguments(_, _)
CallArguments(entered, args) ==
  LET st == Enter(entered, "call: arguments") IN
  Then(Expression(st), LAMBDA s1 :
  IF Failed(s1) THEN s1
  ELSE IF Kind(s1.cur) = "CommaToken"
    THEN CallArguments(Eat(s1, "CommaToken", DefaultMessage, FALSE),
                       Append(args, s1.ret))
  ELSE Return(s1, Append(args, s1.ret)))

\* call()
Call(entered) ==
  LET st == Enter(entered, "call") IN
  Then(Variable(st), LAMBDA s1 :
  Then(Eat(s1, "OpeningParenthesisToken", DefaultMessage, FALSE), LAMBDA s2 :
  Then(IF Failed(s2) THEN s2
       ELSE IF Kind(s2.cur) # "ClosingParenthesisToken"
         THEN CallArguments(s2, <<>>)
       ELSE Return(s2, <<>>), LAMBDA s3 :
  Then(Eat(s3, "ClosingParenthesisToken",
           "Expected closing parenthesis after procedure/function call", TRUE),
       LAMBDA s4 :
  IF Failed(s4) THEN s4
  ELSE Construct(s4, "CallAST", s1.heap[s1.ret].value, s3.ret,
                 s1.heap[s1.ret].position)))))

\* assignmentExpression()
AssignmentExpression(entered) ==
  LET st == Enter(entered, "assignmentExpression") IN
  Then(Variable(st), LAMBDA s1 :
  Then(Expression(Eat(s1, "AssignToken", "Invalid statement", TRUE)), LAMBDA s3 :
  IF Failed(s3) THEN s3
  ELSE Construct(s3, "AssignmentAST", "", <<s1.ret, s3.ret>>,
                 SpanOf(Token(s1.cur)))))

\* empty()
Empty(entered) ==
  LET st == Enter(entered, "empty") IN
  IF Failed(st) THEN st
  ELSE Construct(st, "EmptyAST", "", <<>>, SpanOf(Token(st.cur)))

\* IfAST.addNext(next): the alternative becomes the If's next and its child.
AddNext(st, this, next) ==
  IF Failed(st) THEN st
  ELSE [st EXCEPT !.heap = AddChild([st.heap EXCEPT ![this].next = next],
                                    this, <<next>>),
                  !.links = Append(@, [from |-> this, to |-> next])]

TypeAST ==
  [IntegerToken |-> "IntegerAST", RealToken |-> "RealAST",
   BooleanToken |-> "BooleanAST", CharToken |-> "CharAST"]

\* type()
Type(entered) ==
  LET st == Enter(entered, "type") IN
  IF Failed(st) THEN st
  ELSE LET savedToken == Token(st.cur)
           kind == savedToken.kind
       IN  IF kind \in DOMAIN TypeAST
             THEN Construct(Eat(st, kind, DefaultMessage, FALSE), TypeAST[kind],
                            "", <<>>, SpanOf(savedToken))
             ELSE Throw(st, SpanOf(savedToken),
                        <<"Unknown data type", savedToken.value>>)

\* variableDeclaration(): the loop over the commas.
RECURSIVE DeclaredIds(_, _)
DeclaredIds(entered, ids) ==
  LET st == Iterate(entered, "variableDeclaration: while", {"CommaToken"}) IN
  IF Failed(st) THEN st
  ELSE IF Kind(st.cur) = "CommaToken"
    THEN Then(Variable(Eat(st, "CommaToken", DefaultMessage, FALSE)), LAMBDA s2 :
         IF Failed(s2) THEN s2 ELSE DeclaredIds(s2, Append(ids, s2.ret)))
  ELSE Return(st, ids)

\* ids.map(id => new VariableDeclarationAST(id, type).inheritPositionFrom(id))
RECURSIVE MapDeclarations(_, _, _, _)
MapDeclarations(st, ids, type, done) ==
  IF ids = <<>> THEN Return(st, done)
  ELSE Then(Construct(st, "VariableDeclarationAST", "", <<Head(ids), type>>,
                      st.heap[Head(ids)].position), LAMBDA s1 :
       MapDeclarations(s1, Tail(ids), type, Append(done, s1.ret)))

\* variableDeclaration()
VariableDeclaration(entered) ==
  LET st == Enter(entered, "variableDeclaration") IN
  Then(Variable(st), LAMBDA s1 :
  Then(IF Failed(s1) THEN s1 ELSE DeclaredIds(s1, <<s1.ret>>), LAMBDA s2 :
  Then(Type(Eat(s2, "ColonToken",
                "Expected colon after variable name declaration", TRUE)),
       LAMBDA s4 :
  IF Failed(s4) THEN s4
  ELSE MapDeclarations(s4, s2.ret, s4.ret, <<>>))))

\* procedureParameters(): the loop over the semicolons.
RECURSIVE MoreParameters(_, _)
MoreParameters(entered, args) ==
  LET st == Iterate(entered, "procedureParameters: while", {"SemiToken"}) IN
  IF Failed(st) THEN st
  ELSE IF Kind(st.cur) = "SemiToken"
    THEN Then(VariableDeclaration(Eat(st, "SemiToken", DefaultMessage, FALSE)),
              LAMBDA s2 :
         IF Failed(s2) THEN s2 ELSE MoreParameters(s2, args \o s2.ret))
  ELSE Return(st, args)

\* procedureParameters()
ProcedureParameters(entered) ==
  LET st == Enter(entered, "procedureParameters") IN
  IF Failed(st) THEN st
  ELSE IF Kind(st.cur) # "IdToken" THEN Return(st, <<>>)
  ELSE Then(VariableDeclaration(st), LAMBDA s1 :
       IF Failed(s1) THEN s1 ELSE MoreParameters(s1, s1.ret))

RECURSIVE Statement(_), StatementList(_), MoreStatements(_, _),
          CompoundStatement(_), If(_), IfStatement(_), ElseLoop(_, _, _),
          For(_), While(_), Repeat(_), Block(_), Declarations(_, _),
          VariableSection(_, _), ProcedureDeclaration(_)

\* repeat()
Repeat(entered) ==
  LET st == Enter(entered, "repeat") IN
  Then(StatementList(Eat(st, "RepeatToken", DefaultMessage, FALSE)), LAMBDA s2 :
  Then(Expression(Eat(s2, "UntilToken",
                      "Expected until at the end of a repeat loop", TRUE)),
       LAMBDA s4 :
  IF Failed(s4) THEN s4
  ELSE Construct(s4, "RepeatAST", "", <<s4.ret>> \o s2.ret, SpanOf(Token(st.cur)))))

\* while()
While(entered) ==
  LET st == Enter(entered, "while") IN
  Then(Expression(Eat(st, "WhileToken", DefaultMessage, FALSE)), LAMBDA s2 :
  Then(Statement(Eat(s2, "DoToken", "Expected do after while condition", TRUE)),
       LAMBDA s4 :
  IF Failed(s4) THEN s4
  ELSE Construct(s4, "WhileAST", "", <<s2.ret, s4.ret>>, SpanOf(Token(st.cur)))))

\* for()
For(entered) ==
  LET st == Enter(entered, "for") IN
  Then(AssignmentExpression(Eat(st, "ForToken", DefaultMessage, FALSE)), LAMBDA s2 :
  Then(IF Failed(s2) THEN s2
       ELSE IF Kind(s2.cur) \in {"ToToken", "DownToToken"}
         THEN Eat(s2, Kind(s2.cur), DefaultMessage, FALSE)
       ELSE Throw(s2, PreviousTokenEndLocationProvider(s2),
                  "Expected to/down to after for"), LAMBDA s3 :
  Then(Expression(s3), LAMBDA s4 :
  Then(Statement(Eat(s4, "DoToken", "Expected do after for header", TRUE)),
       LAMBDA s6 :
  IF Failed(s6) THEN s6
  ELSE Construct(s6, "ForAST",
                 IF Kind(s2.cur) = "ToToken" THEN "true" ELSE "false",
                 <<s2.ret, s4.ret, s6.ret>>, SpanOf(Token(st.cur)))))))

\* if()
If(entered) ==
  LET st == Enter(entered, "if") IN
  Then(Expression(Eat(st, "IfToken", DefaultMessage, FALSE)), LAMBDA s2 :
  Then(Statement(Eat(s2, "ThenToken", "Expected then after if condition", TRUE)),
       LAMBDA s4 :
  IF Failed(s4) THEN s4
  ELSE Construct(s4, "IfAST", "", <<s2.ret, s4.ret>>, SpanOf(Token(st.cur)))))

\* ifStatement(): the loop over the else tokens.
ElseLoop(entered, firstIf, currentIf) ==
  LET st == Iterate(entered, "ifStatement: while", {"ElseToken"}) IN
  IF Failed(st) THEN st
  ELSE IF Kind(st.cur) = "ElseToken"
    THEN Then(Eat(st, "ElseToken", DefaultMessage, FALSE), LAMBDA s1 :
         IF Kind(s1.cur) = "IfToken"
           THEN Then(If(s1), LAMBDA s2 :
                Then(AddNext(s2, currentIf, s2.ret), LAMBDA s3 :
                ElseLoop(s3, firstIf, s2.ret)))
           ELSE Then(Statement(s1), LAMBDA s2 :
                Then(AddNext(s2, currentIf, s2.ret), LAMBDA s3 :
                ElseLoop(s3, firstIf, currentIf))))
  ELSE Return(st, firstIf)

\* ifStatement()
IfStatement(entered) ==
  LET st == Enter(entered, "ifStatement") IN
  Then(If(st), LAMBDA s1 :
  IF Failed(s1) THEN s1 ELSE ElseLoop(s1, s1.ret, s1.ret))

\* compoundStatement()
CompoundStatement(entered) ==
  LET st == Enter(entered, "compoundStatement") IN
  Then(StatementList(Eat(st, "BeginToken", DefaultMessage, FALSE)), LAMBDA s2 :
  Then(Eat(s2, "EndToken", "Expected compound statement to end with end", FALSE),
       LAMBDA s3 :
  IF Failed(s3) THEN s3
  ELSE Construct(s3, "CompoundAST", "", s2.ret, SpanOf(Token(st.cur)))))

\* statementList(): the loop over the semicolons.
MoreStatements(entered, statements) ==
  LET st == Iterate(entered, "statementList: while", {"SemiToken"}) IN
  IF Failed(st) THEN st
  ELSE IF Kind(st.cur) = "SemiToken"
    THEN Then(Statement(Eat(st, "SemiToken", DefaultMessage, FALSE)), LAMBDA s2 :
         IF Failed(s2) THEN s2
         ELSE MoreStatements(s2, Append(statements, s2.ret)))
  ELSE Return(st, statements)

StatementListTerminators == {"EndToken", "UntilToken"}

\* statementList()
StatementList(entered) ==
  LET st == Enter(entered, "statementList") IN
  Then(Statement(st), LAMBDA s1 :
  Then(IF Failed(s1) THEN s1 ELSE MoreStatements(s1, <<s1.ret>>), LAMBDA s2 :
  IF Failed(s2) THEN s2
  ELSE Then([s2 EXCEPT !.lists =
               Append(@, [statement |-> s2.ret[Len(s2.ret)], at |-> s2.cur])],
            LAMBDA s3 :
       IF Kind(s3.cur) \notin StatementListTerminators
          /\ ~(s3.prev # 0 /\ Kind(s3.prev) = "SemiToken")
         THEN Throw(s3, PreviousTokenEndLocationProvider(s3),
                    "Expected statement to end with a semi colon")
         ELSE s3)))

\* statement()
Statement(entered) ==
  LET st == Enter(entered, "statement") IN
  IF Failed(st) THEN st
  ELSE LET kind == Kind(st.cur)
           peek == Kind(st.cur + 1)
       IN  IF kind = "BeginToken" THEN CompoundStatement(st)
           ELSE IF kind = "IdToken" /\ peek = "OpeningParenthesisToken" THEN Call(st)
           ELSE IF kind = "IdToken" THEN AssignmentExpression(st)
           ELSE IF kind = "IfToken" THEN IfStatement(st)
           ELSE IF kind = "ForToken" THEN For(st)
           ELSE IF kind = "WhileToken" THEN While(st)
           ELSE IF kind = "RepeatToken" THEN Repeat(st)
           ELSE Empty(st)

\* declarations(): the do-while loop over the groups of one var section.
VariableSection(entered, declarations) ==
  LET st == Enter(entered, "declarations: do") IN
  Then(VariableDeclaration(st), LAMBDA s1 :
  Then(Eat(s1, "SemiToken",
           "Expected semi color at the end of a variable declaration", TRUE),
       LAMBDA s2 :
  IF Failed(s2) THEN s2
  ELSE IF Kind(s2.cur) = "IdToken"
    THEN VariableSection(s2, declarations \o s1.ret)
  ELSE Return(s2, declarations \o s1.ret)))

\* declarations()
Declarations(entered, declarations) ==
  LET st == Iterate(entered, "declarations: while", {"VariableToken", "ProcedureToken"}) IN
  IF Failed(st) THEN st
  ELSE IF Kind(st.cur) = "VariableToken"
    THEN Then(VariableSection(Eat(st, "VariableToken", DefaultMessage, FALSE),
                              declarations), LAMBDA s2 :
         IF Failed(s2) THEN s2 ELSE Declarations(s2, s2.ret))
  ELSE IF Kind(st.cur) = "ProcedureToken"
    THEN Then(ProcedureDeclaration(st), LAMBDA s1 :
         IF Failed(s1) THEN s1
         ELSE Declarations(s1, Append(declarations, s1.ret)))
  ELSE Return(st, declarations)

\* procedureDeclaration()
ProcedureDeclaration(entered) ==
  LET st == Enter(entered, "procedureDeclaration") IN
  Then(Variable(Eat(st, "ProcedureToken", DefaultMessage, FALSE)), LAMBDA s2 :
  Then(IF Failed(s2) THEN s2
       ELSE IF Kind(s2.cur) = "OpeningParenthesisToken"
         THEN Then(ProcedureParameters(
                     Eat(s2, "OpeningParenthesisToken",
                         "Expected opening parenthesis after procedure name",
                         FALSE)), LAMBDA p :
              Eat(p, "ClosingParenthesisToken",
                  "Expected closing parenthesis after procedure arguments", TRUE))
       ELSE Return(s2, <<>>), LAMBDA s3 :
  Then(Block(Eat(s3, "SemiToken",
                 "Expected semi colon after procedure type declaration", TRUE)),
       LAMBDA s5 :
  Then(Eat(s5, "SemiToken",
           "Expected semi colon after procedure declaration", TRUE), LAMBDA s6 :
  IF Failed(s6) THEN s6
  ELSE Construct(s6, "ProcedureDeclarationAST", s2.heap[s2.ret].value,
                 Append(s3.ret, s5.ret), SpanOf(Token(st.cur)))))))

\* block()
Block(entered) ==
  LET st == Enter(entered, "block") IN
  Then(Declarations(st, <<>>), LAMBDA s1 :
  Then(IF Failed(s1) THEN s1 ELSE CompoundStatement(s1), LAMBDA s2 :
  IF Failed(s2) THEN s2
  ELSE Construct(s2, "BlockAST", "", Append(s1.ret, s2.ret), NoPosition)))

\* program()
ProgramRule(entered) ==
  LET st == Enter(entered, "program") IN
  Then(Variable(Eat(st, "ProgramToken",
                    "Expected program to begin with a program statement", FALSE)),
       LAMBDA s2 :
  Then(Block(Eat(s2, "SemiToken", "Expected semi colon after program name", TRUE)),
       LAMBDA s4 :
  Then(Eat(s4, "DotToken", "Expected dot at the end of a program", TRUE),
       LAMBDA s5 :
  IF Failed(s5) THEN s5
  ELSE Construct(s5, "ProgramAST", s2.heap[s2.ret].value, <<s4.ret>>,
                 SpanOf(Token(st.cur))))))

\* run()
RunParser(entered) ==
  LET st == Enter(entered, "run") IN
  Then(ProgramRule(st), LAMBDA s1 :
  Then(Eat(s1, "EofToken", DefaultMessage, FALSE), LAMBDA s2 :
  IF Failed(s2) THEN s2 ELSE Return(s2, s1.ret)))

\* The value a rule returned, as a term: the node's kind, the index of the
\* token its span was taken from, its literal value and its arguments.
TokenIndexAt(position) ==
  IF \E i \in 1..Len(tokens) : SpanOf(tokens[i]) = position
    THEN CHOOSE i \in 1..Len(tokens) : SpanOf(tokens[i]) = position
    ELSE 0
RECURSIVE Shape(_, _)
Shape(h, n) ==
  [kind |-> h[n].kind, at |-> TokenIndexAt(h[n].position), value |-> h[n].value,
   args |-> [k \in 1..Len(h[n].args) |-> Shape(h, h[n].args[k])]]

Sources(alphabet, maxLen) == UNION {[1..n -> alphabet] : n \in 1..maxLen}
Program(src) == Lex(src \o <<EofLexeme>>, 1)

ExprAlphabet == {"1", "a", "+", "*", "=", "(", ")"}
ExprInputs(maxLen) == {Program(src) : src \in Sources(ExprAlphabet, maxLen)}

InitParserIdle ==
  /\ tokens = <<>>
  /\ parser = NewParser

\* new Parser(lexer).expression() on an expression source.
InitExpr ==
  /\ InitScope /\ InitAST
  /\ tokens \in ExprInputs(MaxExprLen)
  /\ parser = NewParser

Finish(st) == [st EXCEPT !.status = IF Failed(st) THEN "threw" ELSE "returned"]

ParseExpression ==
  /\ UNCHANGED <<notParserVars, heap, tokens>>
  /\ parser.status = "constructed"
  /\ parser' = Finish(Expression(parser))

NextExpr == ParseExpression

SpecExpr == InitExpr /\ [][NextExpr]_vars

RECURSIVE Flatten(_)
Flatten(seqs) == IF seqs = <<>> THEN <<>> ELSE Head(seqs) \o Flatten(Tail(seqs))
RECURSIVE Join(_, _)
Join(seqs, sep) ==
  IF Len(seqs) <= 1 THEN Flatten(seqs)
  ELSE Head(seqs) \o sep \o Join(Tail(seqs), sep)

\* Well-formed programs: a declaration part and a list of statements, each
\* drawn from a set of well-formed fragments.
DeclarationSources ==
  { <<>>,
    <<"var", "a", ":", "integer", ";">>,
    <<"var", "a", ",", "b", ":", "integer", ";">>,
    <<"var", "a", ":", "integer", ";", "b", ":", "real", ";">>,
    <<"procedure", "q", ";", "begin", "end", ";">>,
    <<"procedure", "q", "(", "a", ":", "integer", ";", "b", ":", "char", ")", ";",
      "var", "c", ":", "boolean", ";", "begin", "c", ":=", "true", "end", ";">> }
StatementSources ==
  { <<>>,
    <<"x", ":=", "1">>,
    <<"x", ":=", "a", "+", "1", "*", "2">>,
    <<"q", "(", "1", ",", "a", ")">>,
    <<"if", "a", "then", "x", ":=", "1">>,
    <<"if", "a", "then", "x", ":=", "1", "else", "x", ":=", "2">>,
    <<"if", "a", "then", "x", ":=", "1", "else", "if", "b", "then", "x", ":=", "2",
      "else", "x", ":=", "3">>,
    <<"while", "a", "do", "x", ":=", "1">>,
    <<"for", "i", ":=", "1", "to", "3", "do", "x", ":=", "1">>,
    <<"repeat", "x", ":=", "1", ";", "y", ":=", "2", "until", "a">>,
    <<"begin", "x", ":=", "1", "end">> }
WellFormedPrograms(maxStatements) ==
  { Program(<<"program", "p", ";">> \o d \o <<"begin">> \o Join(ss, <<";">>)
            \o <<"end", ".">>) :
      d \in DeclarationSources, ss \in Sources(StatementSources, maxStatements) }

\* Programs whose body is any sequence of statement fragments, well-formed
\* or not.
Chunks ==
  { <<"x", ":=", "1">>,
    <<";">>,
    <<"if", "a", "then", "x", ":=", "1">>,
    <<"else", "if", "b", "then", "y", ":=", "2">>,
    <<"else", "z", ":=", "3">>,
    <<"begin">>,
    <<"end">>,
    <<"repeat">>,
    <<"until", "a">>,
    <<"while", "a", "do">>,
    <<"f", "(", "1", ")">>,
    <<"x", ":=", "f", "(", "1", ")">> }
ChunkPrograms(maxChunks) ==
  { Program(<<"program", "p", ";", "begin">> \o Flatten(cs) \o <<"end", ".">>) :
      cs \in Sources(Chunks, maxChunks) }

\* new Parser(lexer) on a well-formed program.
InitProgram ==
  /\ InitScope /\ InitAST
  /\ tokens \in WellFormedPrograms(MaxStatements)
  /\ parser = NewParser

\* new Parser(lexer) on a program with an arbitrary body.
InitStatements ==
  /\ InitScope /\ InitAST
  /\ tokens \in ChunkPrograms(MaxChunks)
  /\ parser = NewParser

\* run()
Run ==
  /\ UNCHANGED <<notParserVars, heap, tokens>>
  /\ parser.status = "constructed"
  /\ parser' = Finish(RunParser(parser))

NextRun == Run

SpecProgram == InitProgram /\ [][NextRun]_vars
SpecStatements == InitStatements /\ [][NextRun]_vars

\* Token streams: a program heading followed by any sequence of fragments
\* of declarations, statements and expressions, complete or not.
StreamChunks ==
  { <<"var", "a", ":", "integer", ";">>,
    <<"var", "a", ",", "b", ":">>,
    <<"procedure", "q", ";">>,
    <<"procedure", "q", "(", "a", ":", "integer", ";", "b", ":", "char", ")", ";">>,
    <<"begin", "end", ";">>,
    <<"begin", "end", ".">>,
    <<"begin">>,
    <<"end", ".">>,
    <<";">>,
    <<"x", ":=", "1">>,
    <<"x", ":=", "-", "(", "a", "+", "1", "*", "2", "=", "3", ")">>,
    <<"q", "(", "1", ",", "a", ")">>,
    <<"if", "a", "then">>,
    <<"else">>,
    <<"while", "a", "do">>,
    <<"for", "i", ":=", "1", "to", "2", "do">>,
    <<"repeat", ";", "until", "a">> }
Streams(maxChunks) ==
  { Program(<<"program", "p", ";">> \o Flatten(cs)) :
      cs \in Sources(StreamChunks, maxChunks) }

\* new Parser(lexer) on a token stream.
InitStreams ==
  /\ InitScope /\ InitAST
  /\ tokens \in Streams(MaxChunks)
  /\ parser = NewParser

SpecStreams == InitStreams /\ [][NextRun]_vars

Init == InitScope /\ InitAST /\ InitParserIdle

SpecAST == Init /\ [][NextAST]_vars

SpecScope == Init /\ [][NextScope]_vars

(***************************************************************************)
(* Properties of SymbolScope                                               *)
(***************************************************************************)
\* Case-insensitive equality of two names, stated without the map's keys.
SameName(a, b) == a = b \/ (a = "x" /\ b = "X") \/ (a = "X" /\ b = "x")
\* The scopes on the chain of s, s first, are s, s-1, ..., 1.
Chain(s) == 1..s
Nearest(S) == CHOOSE a \in S : \A b \in S : b <= a
IsNullish(r) == r \in {Null, Undefined}
Filters(T) == {NoType} \cup T

ValueHolders(s, name) == {a \in Chain(s) : \E e \in value[a] : SameName(e.key, name)}
ValueAt(a, name) == (CHOOSE e \in value[a] : SameName(e.key, name)).val
Declarers(s, name) == {a \in Chain(s) : \E e \in scope[a] : SameName(e.val.name, name)}
SymbolAt(a, name) == (CHOOSE e \in scope[a] : SameName(e.val.name, name)).val

\* C1: resolveValue walks outward: when the value of a name is held only by
\* ancestors of the calling scope, resolveValue(name), with or without a type
\* filter, returns the value of the nearest ancestor holding one (of the
\* filtered class, when a filter is given), and without a filter it returns
\* null only when no scope on the chain holds a value for the name.
C1_ResolveValueWalksOutward ==
  \A s \in Scopes, name \in Names, type \in Filters(ValueTypes) :
    LET holders == ValueHolders(s, name)
        matching == {a \in holders : type = NoType \/ ValueAt(a, name).cls = type}
    IN  /\ (s \notin holders /\ matching # {})
              => ResolveValue(s, name, type) = ValueAt(Nearest(matching), name)
        /\ (type = NoType /\ IsNullish(ResolveValue(s, name, type))) => holders = {}

\* C2: resolve(name, filter) on scope S returns the symbol declared under the
\* case-insensitive name in the nearest scope on S's chain whose symbol
\* satisfies the filter, and null exactly when there is none.
MatchingDeclarers(s, name, symbolType) ==
  {a \in Declarers(s, name) :
     symbolType = NoType \/ SymbolInstanceOf(SymbolAt(a, name), symbolType)}
C2_ResolveNearestMatch ==
  \A s \in Scopes, name \in Names, symbolType \in Filters(SymbolTypes) :
    LET matching == MatchingDeclarers(s, name, symbolType)
    IN  Resolve(s, name, symbolType) =
          IF matching = {} THEN Null ELSE SymbolAt(Nearest(matching), name)

\* An inner procedure x shadows the outer variable X, the variable filter
\* skips the inner procedure, and both resolve from the innermost scope,
\* which declares nothing.
C2_Witness ==
  /\ scope[NumScopes] = {}
  /\ \E a, b \in Scopes :
       /\ a < b /\ b < NumScopes
       /\ Declarers(NumScopes, "x") = {a, b}
       /\ Resolve(NumScopes, "x", NoType) = [name |-> "x", kind |-> "Procedure"]
       /\ SymbolAt(b, "x") = [name |-> "x", kind |-> "Procedure"]
       /\ Resolve(NumScopes, "x", "VariableSymbol") = [name |-> "X", kind |-> "VarInteger"]
       /\ SymbolAt(a, "x") = [name |-> "X", kind |-> "VarInteger"]
       /\ Resolve(NumScopes, "y", NoType) = Null

\* C3: insert throws exactly when the scope already declares the name
\* (case-insensitively) and then leaves the scope's two tables unchanged;
\* otherwise the symbol is declared in that scope; no scope ever declares a
\* name twice.
NoDuplicateNames ==
  \A s \in Scopes : \A e, f \in scope[s] : SameName(e.val.name, f.val.name) => e = f
InsertStep ==
  last'.op = "insert" =>
    LET s == last'.scope
        sym == last'.sym
        dup == \E e \in scope[s] : SameName(e.val.name, sym.name)
    IN  /\ last'.threw <=> dup
        /\ last'.threw => scope'[s] = scope[s] /\ value'[s] = value[s]
        /\ ~last'.threw => \E e \in scope'[s] : e.val = sym
C3_InsertRedeclaration == []NoDuplicateNames /\ [][InsertStep]_vars

\* An insert has just thrown in a scope whose name is also declared, under
\* another spelling, in its parent scope.
C3_Witness ==
  /\ last.op = "insert" /\ last.threw
  /\ last.scope > 1
  /\ Declarers(last.scope, last.sym.name) = {last.scope - 1, last.scope}
  /\ SymbolAt(last.scope, last.sym.name).name # last.sym.name

\* C4: changeValue(name, v) on scope S, with name declared on S's chain,
\* overwrites the value entry of the nearest declaring scope and changes
\* nothing else; every value entry belongs to a name its scope declares.
ValuesOwned ==
  \A s \in Scopes : \A e \in value[s] : \E d \in scope[s] : SameName(d.val.name, e.key)
ChangeValueStep ==
  (last'.op = "changeValue" /\ Declarers(last'.scope, last'.name) # {}) =>
    LET owner == Nearest(Declarers(last'.scope, last'.name))
    IN  /\ ~last'.threw
        /\ scope' = scope
        /\ \A a \in Scopes \ {owner} : value'[a] = value[a]
        /\ {e \in value'[owner] : ~SameName(e.key, last'.name)}
             = {e \in value[owner] : ~SameName(e.key, last'.name)}
        /\ {e.val : e \in {f \in value'[owner] : SameName(f.key, last'.name)}}
             = {last'.value}
C4_ChangeValueOwner == []ValuesOwned /\ [][ChangeValueStep]_vars

\* changeValue, called on an inner scope that shadows the name without a
\* value of its own, has just written the inner scope's entry while an
\* outer scope holds a value for the same name.
C4_Witness ==
  /\ last.op = "changeValue" /\ ~last.threw
  /\ last.scope > 1
  /\ ValueHolders(last.scope, last.name) = {1, last.scope}
  /\ ValueAt(last.scope, last.name) = last.value
  /\ ValueAt(1, last.name) = IntDefault

(***************************************************************************)
(* Properties of AST                                                       *)
(***************************************************************************)
\* C5: for a receiver with parent P at index i of P's children,
\* receiver.replace(newNode) changes P's children only at index i, which now
\* holds newNode, sets the receiver's parent to null and leaves newNode's
\* parent equal to P, so that every child of P has P as its parent.
ReplaceStep ==
  (astLast'.op = "replace" /\ heap[astLast'.this].parent # NoNode
     /\ FindIndex(heap[heap[astLast'.this].parent].children, astLast'.this) # -1) =>
    LET this == astLast'.this
        node == astLast'.node
        P == heap[this].parent
        i == FindIndex(heap[P].children, this)
    IN  /\ ~astLast'.threw
        /\ heap'[P].children = [heap[P].children EXCEPT ![i] = node]
        /\ heap'[this].parent = NoNode
        /\ heap'[node].parent = P
        /\ \A k \in 1..Len(heap'[P].children) : heap'[heap'[P].children[k]].parent = P
C5_ReplaceKeepsParentLinks == [][ReplaceStep]_vars

(***************************************************************************)
(* Properties of the expression rules                                      *)
(***************************************************************************)
\* The parse of the token range lo..hi by the three-tier right-recursive
\* grammar, stated by splitting the range at its first binary operator of
\* the loosest tier that stands outside all parentheses (a + or - is binary
\* when it follows the end of an operand, and a sign otherwise).
Invalid == [kind |-> "Invalid"]
OperandEnd ==
  {"IntegerConstToken", "RealConstToken", "CharConstantToken", "TrueToken",
   "FalseToken", "IdToken", "ClosingParenthesisToken"}
Count(lo, hi, kind) == Cardinality({j \in lo..hi : tokens[j].kind = kind})
Depth(lo, i) ==
  Count(lo, i - 1, "OpeningParenthesisToken") - Count(lo, i - 1, "ClosingParenthesisToken")
BinaryAt(lo, hi, operators) ==
  {i \in lo..hi : /\ tokens[i].kind \in operators
                  /\ Depth(lo, i) = 0
                  /\ tokens[i].kind \in DOMAIN UnaryAST =>
                       i > lo /\ tokens[i - 1].kind \in OperandEnd}
First(S) == CHOOSE i \in S : \A j \in S : i <= j
Binary(kind, at, left, right) ==
  IF left = Invalid \/ right = Invalid THEN Invalid
  ELSE [kind |-> kind, at |-> at, value |-> "", args |-> <<left, right>>]
Unary(kind, at, operand) ==
  IF operand = Invalid THEN Invalid
  ELSE [kind |-> kind, at |-> at, value |-> "", args |-> <<operand>>]

RECURSIVE GrammarExpr(_, _), GrammarTerm(_, _), GrammarComparison(_, _), GrammarFactor(_, _)
GrammarFactor(lo, hi) ==
  IF lo > hi THEN Invalid
  ELSE LET kind == tokens[lo].kind
       IN  IF kind \in DOMAIN UnaryAST
             THEN Unary(UnaryAST[kind], lo, GrammarFactor(lo + 1, hi))
           ELSE IF kind = "OpeningParenthesisToken"
             THEN IF tokens[hi].kind = "ClosingParenthesisToken" /\ lo < hi
                     /\ \A i \in (lo + 1)..hi : Depth(lo, i) > 0
                    THEN GrammarExpr(lo + 1, hi - 1)
                    ELSE Invalid
           ELSE IF lo # hi THEN Invalid
           ELSE IF kind \in DOMAIN LiteralAST
             THEN [kind |-> LiteralAST[kind], at |-> lo,
                   value |-> IF kind \in {"TrueToken", "FalseToken"}
                               THEN "" ELSE tokens[lo].value,
                   args |-> <<>>]
           ELSE IF kind = "IdToken"
             THEN [kind |-> "VariableAST", at |-> lo, value |-> tokens[lo].value,
                   args |-> <<>>]
           ELSE Invalid
GrammarComparison(lo, hi) ==
  LET splits == BinaryAt(lo, hi, DOMAIN ComparisonAST)
  IN  IF lo > hi THEN Invalid
      ELSE IF splits = {} THEN GrammarFactor(lo, hi)
      ELSE LET i == First(splits)
           IN  Binary(ComparisonAST[tokens[i].kind], i,
                      GrammarFactor(lo, i - 1), GrammarComparison(i + 1, hi))
GrammarTerm(lo, hi) ==
  LET splits == BinaryAt(lo, hi, DOMAIN MultiplicativeAST)
  IN  IF lo > hi THEN Invalid
      ELSE IF splits = {} THEN GrammarComparison(lo, hi)
      ELSE LET i == First(splits)
           IN  Binary(MultiplicativeAST[tokens[i].kind], i,
                      GrammarComparison(lo, i - 1), GrammarTerm(i + 1, hi))
GrammarExpr(lo, hi) ==
  LET splits == BinaryAt(lo, hi, DOMAIN AdditiveAST)
  IN  IF lo > hi THEN Invalid
      ELSE IF splits = {} THEN GrammarTerm(lo, hi)
      ELSE LET i == First(splits)
           IN  Binary(AdditiveAST[tokens[i].kind], i,
                      GrammarTerm(lo, i - 1), GrammarExpr(i + 1, hi))

Lexemes == [i \in 1..(Len(tokens) - 1) |-> tokens[i].value]
Leaf(kind, at) == [kind |-> kind, at |-> at, value |-> tokens[at].value, args |-> <<>>]
Node2(kind, at, l, r) == [kind |-> kind, at |-> at, value |-> "", args |-> <<l, r>>]
Result == Shape(parser.heap, parser.ret)

\* C7: on every token sequence that is an expression of the grammar,
\* expression() consumes the whole sequence and returns the tree of the
\* three-tier right-recursive grammar, and it accepts no other sequence as
\* a whole; a + a + a is Plus(a, Plus(a, a)), 1 + 1 * 1 is
\* Plus(1, Multiplication(1, 1)) and 1 * 1 = 1 is Multiplication(1, Equals(1, 1)).
C7_ExpressionIsRightRecursiveGrammar ==
  parser.status # "constructed" =>
    LET n == Len(tokens) - 1
        tree == GrammarExpr(1, n)
    IN  /\ tree # Invalid =>
             parser.status = "returned" /\ parser.cur = n + 1 /\ Result = tree
        /\ tree = Invalid => parser.status = "threw" \/ parser.cur <= n
        /\ Lexemes = <<"a", "+", "a", "+", "a">> =>
             Result = Node2("PlusAST", 2, Leaf("VariableAST", 1),
                            Node2("PlusAST", 4, Leaf("VariableAST", 3),
                                  Leaf("VariableAST", 5)))
        /\ Lexemes = <<"1", "+", "1", "*", "1">> =>
             Result = Node2("PlusAST", 2, Leaf("IntegerConstantAST", 1),
                            Node2("MultiplicationAST", 4,
                                  Leaf("IntegerConstantAST", 3),
                                  Leaf("IntegerConstantAST", 5)))
        /\ Lexemes = <<"1", "*", "1", "=", "1">> =>
             Result = Node2("MultiplicationAST", 2, Leaf("IntegerConstantAST", 1),
                            Node2("EqualsAST", 4, Leaf("IntegerConstantAST", 3),
                                  Leaf("IntegerConstantAST", 5)))

\* expression() has returned the tree of 1 * 1 = 1.
C7_Witness ==
  /\ parser.status = "returned"
  /\ Lexemes = <<"1", "*", "1", "=", "1">>
  /\ Result.kind = "MultiplicationAST"
  /\ Result.args[2].kind = "EqualsAST"

(***************************************************************************)
(* Properties of run()                                                     *)
(***************************************************************************)
Range(seq) == {seq[k] : k \in 1..Len(seq)}
RECURSIVE Descendants(_, _)
Descendants(h, n) == {n} \cup UNION {Descendants(h, c) : c \in Range(h[n].children)}
Occurrences(seq, x) == Cardinality({k \in 1..Len(seq) : seq[k] = x})

\* Every node below the root has a parent, is once among that parent's
\* children, and is among the children of no other node.
IsTree(h, root) ==
  /\ h[root].parent = NoNode
  /\ \A n \in Descendants(h, root) \ {root} :
       /\ h[n].parent # NoNode
       /\ Occurrences(h[h[n].parent].children, n) = 1
       /\ \A m \in 1..Len(h) : m # h[n].parent => Occurrences(h[m].children, n) = 0

\* C6: on every well-formed program run() succeeds and returns a tree rooted
\* at a Program node: every other node has exactly one parent, appears
\* exactly once in that parent's children, and is owned by no second parent.
C6_RunReturnsTree ==
  parser.status # "constructed" =>
    /\ parser.status = "returned"
    /\ parser.heap[parser.ret].kind = "ProgramAST"
    /\ IsTree(parser.heap, parser.ret)

(***************************************************************************)
(* Properties of statement lists, if-chains and calls                      *)
(***************************************************************************)
Done == parser.status # "constructed"
MissingSeparator == "Expected statement to end with a semi colon"

\* The statement lists whose last statement is not empty and is followed by
\* a token other than ; end until.
Unseparated ==
  {k \in 1..Len(parser.lists) :
     /\ parser.heap[parser.lists[k].statement].kind # "EmptyAST"
     /\ Kind(parser.lists[k].at) \notin {"SemiToken", "EndToken", "UntilToken"}}

\* C8: when a statement list holds a parsed non-empty statement followed by
\* a token other than ; end until, the parse fails with the missing-separator
\* error, located one column before the end of the last token of that
\* statement, on the line of that end.
C8_MissingSeparatorError ==
  Done =>
    \A k \in Unseparated :
      LET lastToken == tokens[parser.lists[k].at - 1]
          at == Position(lastToken.end.linePosition,
                         lastToken.end.characterPosition - 1)
      IN  /\ parser.status = "threw"
          /\ parser.err.message = MissingSeparator
          /\ parser.err.location = [start |-> at, end |-> at]

\* The parse of  begin x := 1 x := 1 end  has failed with the error placed
\* inside the first statement's last token, not at the second x.
C8_Witness ==
  /\ Done
  /\ Lexemes = <<"program", "p", ";", "begin", "x", ":=", "1", "x", ":=", "1",
                 "end", ".">>
  /\ Unseparated # {}
  /\ parser.err.message = MissingSeparator
  /\ parser.err.location.start = Position(1, tokens[7].end.characterPosition - 1)
  /\ parser.err.location.start # tokens[8].start

\* C9: every If of a chain receives at most one next: an else followed by a
\* statement that is no if ends the chain, and no further else is consumed
\* by it; if a then s1 else if b then s2 else s3 gives If -> If -> s3.
C9_IfChainIsSinglyLinked ==
  Done =>
    /\ \A i, j \in 1..Len(parser.links) :
         parser.links[i].from = parser.links[j].from => i = j
    /\ \A i \in 1..Len(parser.links) :
         parser.heap[parser.links[i].from].next = parser.links[i].to
    /\ Lexemes = <<"program", "p", ";", "begin", "if", "a", "then", "x", ":=", "1",
                   "else", "if", "b", "then", "y", ":=", "2", "else", "z", ":=",
                   "3", "end", ".">> =>
         /\ parser.status = "returned"
         /\ Len(parser.links) = 2
         /\ parser.links[1].to = parser.links[2].from
         /\ parser.heap[parser.links[1].from].kind = "IfAST"
         /\ parser.heap[parser.links[2].from].kind = "IfAST"
         /\ parser.heap[parser.links[2].to].kind = "AssignmentAST"

\* C10: an identifier in expression position that is followed by ( is
\* parsed as a Call: an assignment whose right-hand side starts with such
\* an identifier has a Call as its assigned expression, and  x := f ( 1 )
\* parses successfully.
CallOperands ==
  {n \in 1..Len(parser.heap) :
     /\ parser.heap[n].kind = "AssignmentAST"
     /\ LET at == TokenIndexAt(parser.heap[n].position)
        IN  /\ tokens[at + 1].kind = "IdToken"
            /\ tokens[at + 2].kind = "OpeningParenthesisToken"}
C10_FactorParsesCalls ==
  Done =>
    /\ \A n \in CallOperands : parser.heap[parser.heap[n].args[2]].kind = "CallAST"
    /\ Lexemes = <<"program", "p", ";", "begin", "x", ":=", "f", "(", "1", ")",
                   "end", ".">> => parser.status = "returned"

(***************************************************************************)
(* Termination of run()                                                    *)
(***************************************************************************)
\* No method and no loop body is entered twice with the same current token:
\* whatever repeats has consumed a token in between.
NoRepetitionWithoutConsumption ==
  \A i, j \in 1..Len(parser.trace) : parser.trace[i] = parser.trace[j] => i = j

\* The error in flight is the one raised at the token the parser stands on:
\* its location is that token's span or, for the errors reported after what
\* was already parsed, the end of the token consumed last.
AbortedWhereItStands ==
  \/ parser.err.location = SpanOf(Token(parser.cur))
  \/ /\ parser.prev # 0
     /\ parser.err.location = PreviousTokenEndLocationProvider(parser)

\* C11: on every token stream ending in end-of-input run() terminates: it
\* returns the Program root with the whole stream consumed, or aborts at the
\* first error with no token consumed after it; no method or loop of the
\* parser repeats without consuming a token.
C11_RunTerminates ==
  Done =>
    /\ NoRepetitionWithoutConsumption
    /\ parser.status = "returned" =>
         /\ parser.heap[parser.ret].kind = "ProgramAST"
         /\ parser.cur = Len(tokens) + 1
    /\ parser.status = "threw" => AbortedWhereItStands

\* The parse of  program p ; begin ; ;  has gone twice round the loop of
\* the statement list, has parsed three empty statements, none of which
\* consumes a token, and has aborted at the end of input, where end was
\* expected.
C11_Witness ==
  /\ Done
  /\ Lexemes = <<"program", "p", ";", "begin", ";", ";">>
  /\ parser.status = "threw"
  /\ Kind(parser.cur) = "EofToken"
  /\ parser.err.location = SpanOf(Token(parser.cur))
  /\ Cardinality({i \in 1..Len(parser.trace) : parser.trace[i].rule = "empty"}) = 3
  /\ Cardinality({i \in 1..Len(parser.trace) :
                    parser.trace[i].rule = "statementList: while"}) = 2

(***************************************************************************)
(* Source spans of the nodes                                               *)
(***************************************************************************)
\* The tokens a node and the nodes below it were tagged with.
TaggedTokens(h, n) == {TokenIndexAt(h[d].position) : d \in Descendants(h, n)} \ {0}
\* The first token of the rule that produced node n of a program without
\* parenthesised expressions: the earliest token of the text the node spans.
FirstTokenOf(h, n) ==
  CHOOSE i \in TaggedTokens(h, n) : \A j \in TaggedTokens(h, n) : i <= j
CarriesRuleStart(h, n) == h[n].position = SpanOf(tokens[FirstTokenOf(h, n)])

\* C12: every node of the tree run() returns carries the span of the first
\* token of the rule that produced it: a binary-operator node that of the
\* first token of its left operand, an Assignment that of its target.
C12_NodesCarryRuleStart ==
  (Done /\ parser.status = "returned") =>
    \A n \in Descendants(parser.heap, parser.ret) : CarriesRuleStart(parser.heap, n)

====
